---------------------------- MODULE Spec2Model ----------------------------
(***************************************************************************)
(* Model of FibonacciRetracementBacktest.py: the run that a click on       *)
(* "Fetch Data" starts.  The fetched frame is validated, annotated with    *)
(* centred rolling swing extremes and the 50% retracement level, stripped  *)
(* of its undefined rows, and walked once by the back-testing loop.        *)
(*                                                                         *)
(* Prices are integers; every derived amount (Fib50, shares, P/L, the      *)
(* balance) is an exact rational <<numerator, denominator>> in lowest      *)
(* terms, so the arithmetic is that of the reals, without float rounding.  *)
(* A Date is the bar's position in the fetched frame.                      *)
(***************************************************************************)
EXTENDS Integers, Sequences, FiniteSets

(***************************************************************************)
(* Bounds of the model and the input grids.                                *)
(***************************************************************************)
\* The longest fetched frame, in bars.
MaxLen == 5

\* The slider's range 5..50, scaled down to windows that fit MaxLen: one even
\* and one odd width, which pandas centres differently.
SwingLengths == {2, 3}

\* risk_percent inputs (number_input: 1.0 .. 100.0, 5.0 by default).
RiskPercents == {5, 100}

\* starting_balance inputs (number_input: at least 1000).
StartingBalances == {1000}

(***************************************************************************)
(* State.                                                                  *)
(***************************************************************************)
VARIABLES
    fetched,            \* the frame yf.download returned
    swing_length,
    starting_balance,
    risk_percent,
    data,               \* the working frame
    pc,                 \* "fetched", "backtest", "stopped" or "done"
    i,                  \* the loop's row
    account_balance,
    total_pnl,
    total_pnl_percent,
    transactions,
    entry_log           \* rows of the "Entry signal triggered" messages

vars == <<fetched, swing_length, starting_balance, risk_percent, data, pc, i,
          account_balance, total_pnl, total_pnl_percent, transactions,
          entry_log>>

inputs == <<fetched, swing_length, starting_balance, risk_percent>>
books == <<account_balance, total_pnl, total_pnl_percent, transactions>>

(***************************************************************************)
(* Exact rational arithmetic.                                              *)
(***************************************************************************)
Abs(x) == IF x < 0 THEN -x ELSE x

RECURSIVE Gcd(_, _)
Gcd(a, b) == IF b = 0 THEN a ELSE Gcd(b, a % b)

Norm(n, d) ==
    LET g == Gcd(Abs(n), Abs(d))
        s == IF d < 0 THEN -1 ELSE 1
    IN  <<(s * n) \div g, (s * d) \div g>>

Num(n) == <<n, 1>>
Add(x, y) == Norm(x[1] * y[2] + y[1] * x[2], x[2] * y[2])
Sub(x, y) == Norm(x[1] * y[2] - y[1] * x[2], x[2] * y[2])
Mul(x, y) == Norm(x[1] * y[1], x[2] * y[2])
Div(x, y) == Norm(x[1] * y[2], x[2] * y[1])
Lt(x, y) == x[1] * y[2] < y[1] * x[2]
Le(x, y) == x[1] * y[2] <= y[1] * x[2]
Gt(x, y) == Lt(y, x)
Ge(x, y) == Le(y, x)

Zero == Num(0)

(***************************************************************************)
(* The fetched frame.                                                      *)
(***************************************************************************)
\* The daily bars a fetched frame is made of, Low <= Close <= High: a low bar,
\* a bar closing at its low under a high spike, a bar closing at its high,
\* a flat bar, and a wide bar closing near its high.  Frames over them hold
\* winning, losing and flat trades, abandoned entries and entries that fire
\* before an earlier entry's exit bar.  The frame always carries the High,
\* Low and Close columns, so the missing-column stop is never taken.
Bars ==
    { [Low |-> 1, Close |-> 4, High |-> 4],
      [Low |-> 5, Close |-> 5, High |-> 8],
      [Low |-> 5, Close |-> 7, High |-> 7],
      [Low |-> 5, Close |-> 5, High |-> 5],
      [Low |-> 1, Close |-> 7, High |-> 8] }

RECURSIVE Frames(_)
Frames(n) ==
    IF n = 0 THEN {<<>>}
    ELSE LET shorter == Frames(n - 1)
         IN  shorter \cup
             {Append(f, b) : f \in {g \in shorter : Len(g) = n - 1}, b \in Bars}

\* reset_index: the Date becomes a column.
ResetIndex(frame) ==
    [k \in 1..Len(frame) |->
        [Date |-> k, High |-> frame[k].High, Low |-> frame[k].Low,
         Close |-> frame[k].Close]]

(***************************************************************************)
(* Rolling swing extremes: Series.rolling(window, center=True).            *)
(***************************************************************************)
NaN == <<>>

SetMax(S) == CHOOSE x \in S : \A y \in S : y <= x
SetMin(S) == CHOOSE x \in S : \A y \in S : x <= y

\* pandas' fixed window, centred: the window of row k is
\* k + offset - window + 1 .. k + offset, with offset = (window - 1) // 2.
Offset(window) == (window - 1) \div 2
WindowOf(k, window) == (k + Offset(window) - window + 1)..(k + Offset(window))

\* min_periods defaults to the window: a window that leaves the frame is NaN.
Fits(k, window, n) ==
    \A m \in WindowOf(k, window) : m \in 1..n

\* A slip: the rolling maximum taken over the Low column.
RollingMaxOfLow(d, window, k) ==
    IF Fits(k, window, Len(d))
    THEN <<SetMax({d[m].Low : m \in WindowOf(k, window)})>>
    ELSE NaN

RollingMaxHigh(d, window, k) ==
    IF Fits(k, window, Len(d))
    THEN <<SetMax({d[m].High : m \in WindowOf(k, window)})>>
    ELSE NaN

RollingMinLow(d, window, k) ==
    IF Fits(k, window, Len(d))
    THEN <<SetMin({d[m].Low : m \in WindowOf(k, window)})>>
    ELSE NaN

\* SwingHigh - (SwingHigh - SwingLow) * 0.5
Fib50Of(sh, sl) ==
    IF sh = NaN \/ sl = NaN THEN NaN
    ELSE <<Sub(Num(sh[1]), Mul(Num(sh[1] - sl[1]), <<1, 2>>))>>

Annotate(d, window) ==
    [k \in 1..Len(d) |->
        LET sh == RollingMaxHigh(d, window, k)
            sl == RollingMinLow(d, window, k)
        IN  [Date |-> d[k].Date, High |-> d[k].High, Low |-> d[k].Low,
             Close |-> d[k].Close, SwingHigh |-> sh, SwingLow |-> sl,
             Fib50 |-> Fib50Of(sh, sl)]]

AllNaN(d, col) == \A k \in 1..Len(d) : d[k][col] = NaN

\* dropna(subset=[Fib50, SwingHigh, SwingLow]); the kept values are unwrapped.
RECURSIVE DropNa(_)
DropNa(d) ==
    IF d = <<>> THEN <<>>
    ELSE LET r == Head(d)
         IN  IF r.Fib50 = NaN \/ r.SwingHigh = NaN \/ r.SwingLow = NaN
             THEN DropNa(Tail(d))
             ELSE <<[Date |-> r.Date, High |-> r.High, Low |-> r.Low,
                     Close |-> r.Close, SwingHigh |-> r.SwingHigh[1],
                     SwingLow |-> r.SwingLow[1], Fib50 |-> r.Fib50[1]]>>
                  \o DropNa(Tail(d))

\* A slip: a frame exactly as long as the window is refused too.
TooSmallOrEqual(n, window) == n <= window

\* len(data) < swing_length
TooSmall(n, window) == n < window

(***************************************************************************)
(* The back-testing loop's arithmetic.  Rows are 1-based: row k is         *)
(* data.iloc[k - 1].                                                       *)
(***************************************************************************)
\* A slip: the previous close is held against the previous row's level.
EntrySignalPreviousLevel(d, k) ==
    /\ k > 1
    /\ Gt(Num(d[k].Close), d[k].Fib50)
    /\ Le(Num(d[k - 1].Close), d[k - 1].Fib50)

\* A slip: the crossing is forgotten, any close above the level enters.
EntrySignalNoCrossing(d, k) ==
    /\ k > 1
    /\ Gt(Num(d[k].Close), d[k].Fib50)

\* The entry signal at row k (the loop's i > 0 is k > 1).
EntrySignal(d, k) ==
    /\ k > 1
    /\ Gt(Num(d[k].Close), d[k].Fib50)
    /\ Le(Num(d[k - 1].Close), d[k].Fib50)

\* The exit test at row m.
ExitSignal(d, m) == d[m].High >= d[m].SwingHigh

\* A slip: the exit scan starts on the entry row itself, range(i, len(data)).
ScanStartAtEntry(k) == k

\* range(i + 1, len(data)): the first row the exit scan visits.
ScanStart(k) == k + 1

\* The row the exit scan stops at, or 0 when it runs off the frame.
RECURSIVE ScanFrom(_, _)
ScanFrom(d, m) ==
    IF m > Len(d) THEN 0
    ELSE IF ExitSignal(d, m) THEN m
    ELSE ScanFrom(d, m + 1)

\* A slip: a position still open at the end is closed on the last row.
ExitRowForced(d, k) ==
    IF ScanFrom(d, ScanStart(k)) = 0 THEN Len(d)
    ELSE ScanFrom(d, ScanStart(k))

\* for j in range(i + 1, len(data)): ... break
ExitRow(d, k) == ScanFrom(d, ScanStart(k))

\* A slip: every position is sized from the starting balance.
PositionSizeFromStart(risk, balance) ==
    Mul(Div(Num(risk), Num(100)), Num(starting_balance))

\* A slip: the percentage is not divided by 100.
PositionSizeNoPercent(risk, balance) == Mul(Num(risk), balance)

\* (risk_percent / 100) * account_balance
PositionSize(risk, balance) == Mul(Div(Num(risk), Num(100)), balance)

\* position_size / Close
Shares(size, close) == Div(size, Num(close))

\* (exit_price - entry_price) * shares
Pnl(exit, entry, shares) == Mul(Num(exit - entry), shares)

\* (pnl / (entry_price * shares)) * 100
PnlPercent(pnl, entry, shares) ==
    Mul(Div(pnl, Mul(Num(entry), shares)), Num(100))

\* A slip: the P/L is taken off the balance.
CreditSignSlip(balance, pnl) == Sub(balance, pnl)

\* account_balance += pnl
Credit(balance, pnl) == Add(balance, pnl)

\* A slip: the outer loop resumes after the exit row.
NextRowAfterExit(k, exitRow) == IF exitRow = 0 THEN k + 1 ELSE exitRow + 1

\* The for loop's next i after the iteration at row k.
NextRow(k, exitRow) == k + 1

(***************************************************************************)
(* The run.  It starts with the inputs read and the frame fetched and      *)
(* re-indexed; the books are not yet set up (they read zero until the      *)
(* indicator stage hands over to the loop).                                *)
(***************************************************************************)
Init ==
    /\ fetched \in Frames(MaxLen)
    /\ swing_length \in SwingLengths
    /\ starting_balance \in StartingBalances
    /\ risk_percent \in RiskPercents
    /\ data = ResetIndex(fetched)
    /\ pc = "fetched"
    /\ i = 1
    /\ account_balance = Zero
    /\ total_pnl = Zero
    /\ total_pnl_percent = Zero
    /\ transactions = <<>>
    /\ entry_log = <<>>

\* data.empty: st.error, st.stop
StopEmpty ==
    /\ pc = "fetched"
    /\ data = <<>>
    /\ pc' = "stopped"
    /\ UNCHANGED <<inputs, data, i, books, entry_log>>

\* the frame is shorter than the window: st.error, st.stop
StopTooSmall ==
    /\ pc = "fetched"
    /\ data # <<>>
    /\ TooSmall(Len(data), swing_length)
    /\ pc' = "stopped"
    /\ UNCHANGED <<inputs, data, i, books, entry_log>>

\* The indicator columns, their validation, dropna and the loop's set-up.
Indicators ==
    /\ pc = "fetched"
    /\ data # <<>>
    /\ ~TooSmall(Len(data), swing_length)
    /\ LET annotated == Annotate(data, swing_length)
       IN  IF \/ AllNaN(annotated, "SwingHigh")
              \/ AllNaN(annotated, "SwingLow")
              \/ AllNaN(annotated, "Fib50")
           THEN /\ pc' = "stopped"
                /\ UNCHANGED <<data, account_balance>>
           ELSE /\ pc' = "backtest"
                /\ data' = DropNa(annotated)
                /\ account_balance' = Num(starting_balance)
    /\ UNCHANGED <<inputs, i, total_pnl, total_pnl_percent, transactions,
                   entry_log>>

\* An iteration whose entry condition is false.
NoEntry ==
    /\ pc = "backtest"
    /\ i <= Len(data)
    /\ ~EntrySignal(data, i)
    /\ i' = i + 1
    /\ UNCHANGED <<inputs, data, pc, books, entry_log>>

\* An iteration that enters and whose exit scan finds its row.
EntryAndExit ==
    /\ pc = "backtest"
    /\ i <= Len(data)
    /\ EntrySignal(data, i)
    /\ ExitRow(data, i) # 0
    /\ LET j == ExitRow(data, i)
           position_size == PositionSize(risk_percent, account_balance)
           entry_price == data[i].Close
           shares == Shares(position_size, entry_price)
           exit_price == data[j].SwingHigh
           pnl == Pnl(exit_price, entry_price, shares)
           pnl_percent == PnlPercent(pnl, entry_price, shares)
       IN  /\ account_balance' = Credit(account_balance, pnl)
           /\ total_pnl' = Add(total_pnl, pnl)
           /\ total_pnl_percent' = Add(total_pnl_percent, pnl_percent)
           /\ transactions' = Append(transactions,
                [EntryDate |-> data[i].Date,
                 ExitDate |-> data[j].Date,
                 EntryPrice |-> entry_price,
                 ExitPrice |-> exit_price,
                 Shares |-> shares,
                 PnL |-> pnl,
                 PnLPercent |-> pnl_percent,
                 TotalPnL |-> total_pnl',
                 TotalPnLPercent |-> total_pnl_percent',
                 AccountBalance |-> account_balance'])
           /\ i' = NextRow(i, j)
    /\ entry_log' = Append(entry_log, i)
    /\ UNCHANGED <<inputs, data, pc>>

\* An iteration that enters and whose exit scan runs off the frame.
EntryNoExit ==
    /\ pc = "backtest"
    /\ i <= Len(data)
    /\ EntrySignal(data, i)
    /\ ExitRow(data, i) = 0
    /\ i' = NextRow(i, 0)
    /\ entry_log' = Append(entry_log, i)
    /\ UNCHANGED <<inputs, data, pc, books>>

\* The loop is over: the table, the chart and the summary (or the warning).
Finish ==
    /\ pc = "backtest"
    /\ i > Len(data)
    /\ pc' = "done"
    /\ UNCHANGED <<inputs, data, i, books, entry_log>>

Next ==
    \/ StopEmpty
    \/ StopTooSmall
    \/ Indicators
    \/ NoEntry
    \/ EntryAndExit
    \/ EntryNoExit
    \/ Finish

Spec == Init /\ [][Next]_vars

(***************************************************************************)
(* Vocabulary of the properties.                                           *)
(***************************************************************************)
\* The loop has started: the books are initialised and data is post-drop.
Running == pc \in {"backtest", "done"}

\* The rows the outer loop has already been through.
Visited == IF Running THEN 1..(i - 1) ELSE {}

Logged(k) == \E n \in 1..Len(entry_log) : entry_log[n] = k

\* The post-drop row that carries a date.
RowOf(date) == CHOOSE k \in 1..Len(data) : data[k].Date = date

Trades == 1..Len(transactions)

HasTrade(k) == \E n \in Trades : transactions[n].EntryDate = data[k].Date

RiskFraction == Div(Num(risk_percent), Num(100))

\* Trade n + 1 was entered before trade n's exit bar.
Overlapping(n) ==
    /\ n \in Trades
    /\ n + 1 \in Trades
    /\ transactions[n + 1].EntryDate < transactions[n].ExitDate

RECURSIVE SumPnL(_)
SumPnL(n) == IF n = 0 THEN Zero ELSE Add(SumPnL(n - 1), transactions[n].PnL)

\* No row after row k passes the exit test.
NoExitAfter(k) ==
    \A m \in (k + 1)..Len(data) : data[m].High < data[m].SwingHigh

\* The balance trade n was sized from.
BalanceBefore(n) ==
    IF n = 1 THEN Num(starting_balance)
    ELSE transactions[n - 1].AccountBalance

StrictlyDecreasingCloses(frame) ==
    \A k \in 2..Len(frame) : frame[k].Close < frame[k - 1].Close

(***************************************************************************)
(* C1.  The claim as stated: a visited row k > 1 triggered an entry if     *)
(* and only if its close is above its own 50% level and the previous       *)
(* row's close is at or below the PREVIOUS row's 50% level.                *)
(***************************************************************************)
C1_EntryAgainstPreviousLevel ==
    \A k \in Visited :
        Logged(k) <=>
            /\ k > 1
            /\ Gt(Num(data[k].Close), data[k].Fib50)
            /\ Le(Num(data[k - 1].Close), data[k - 1].Fib50)

(***************************************************************************)
(* C1, amended.  A visited row k triggered an entry if and only if k > 1,  *)
(* its close is above its own 50% level, and the previous row's close is   *)
(* at or below that same level, the level of row k.                        *)
(***************************************************************************)
C1_EntryAgainstCurrentLevel ==
    \A k \in Visited :
        Logged(k) <=>
            /\ k > 1
            /\ Gt(Num(data[k].Close), data[k].Fib50)
            /\ Le(Num(data[k - 1].Close), data[k].Fib50)

\* An entry fired although the previous close was above the previous level.
C1_Witness ==
    \E k \in Visited :
        /\ Logged(k)
        /\ Gt(Num(data[k - 1].Close), data[k - 1].Fib50)

(***************************************************************************)
(* C2.  The claim as stated: when trade n + 1 was entered before trade     *)
(* n's exit bar, its position size (shares times entry price) is the risk  *)
(* fraction of the balance as it was before trade n's P/L was applied.     *)
(***************************************************************************)
C2_SizedBeforeFirstExit ==
    \A n \in Trades :
        Overlapping(n) =>
            Mul(transactions[n + 1].Shares, Num(transactions[n + 1].EntryPrice))
              = Mul(RiskFraction,
                    Sub(transactions[n].AccountBalance, transactions[n].PnL))

(***************************************************************************)
(* C2, amended.  When two entries fired at rows k1 < k2 and the first      *)
(* one's exit bar lies after k2, both trades are recorded; and the later   *)
(* trade of two successive records is sized at the risk fraction of the    *)
(* starting balance plus the total P/L up to and including the earlier     *)
(* trade, that is, of the balance AFTER the earlier trade's P/L was        *)
(* applied, whether or not its exit bar comes later.                       *)
(***************************************************************************)
C2_SizedAfterFirstExit ==
    /\ \A n \in Trades :
          n + 1 \in Trades =>
            Mul(transactions[n + 1].Shares, Num(transactions[n + 1].EntryPrice))
              = Mul(RiskFraction,
                    Add(Num(starting_balance), transactions[n].TotalPnL))
    /\ Len(transactions) >= 1 =>
          Mul(transactions[1].Shares, Num(transactions[1].EntryPrice))
            = Mul(RiskFraction, Num(starting_balance))
    /\ \A n \in Trades : \A k \in Visited :
          ( /\ Logged(k)
            /\ transactions[n].EntryDate < data[k].Date
            /\ data[k].Date < transactions[n].ExitDate ) => HasTrade(k)

\* Two overlapping trades, the first of which moved the balance.
C2_Witness ==
    \E n \in Trades : Overlapping(n) /\ transactions[n].PnL # Zero

C4_EqualLengthIsRefused ==
    (Len(fetched) = swing_length /\ pc # "fetched") => pc = "stopped"

(***************************************************************************)
(* C4, amended.  A frame with exactly swing_length bars is not stopped:    *)
(* the centred window fits at exactly one bar, row                         *)
(* swing_length - (swing_length - 1) \div 2, the loop runs over that       *)
(* single row and the run ends with no entry, no trade and the starting    *)
(* balance.                                                                *)
(***************************************************************************)
C4_EqualLengthKeepsOneRow ==
    Len(fetched) = swing_length =>
        /\ pc # "stopped"
        /\ Running =>
              /\ Len(data) = 1
              /\ data[1].Date = swing_length - ((swing_length - 1) \div 2)
              /\ entry_log = <<>>
              /\ transactions = <<>>
              /\ account_balance = Num(starting_balance)

C4_Witness == Len(fetched) = swing_length /\ pc = "done"

(***************************************************************************)
(* C5.  No signal: a fetched frame whose closes strictly decrease from     *)
(* bar to bar never triggers an entry; the run ends with an empty          *)
(* transaction log and the starting balance.                               *)
(***************************************************************************)
C5_DecreasingNeverEnters ==
    StrictlyDecreasingCloses(fetched) =>
        /\ entry_log = <<>>
        /\ transactions = <<>>
        /\ Running => account_balance = Num(starting_balance)

\* A finished run over decreasing closes in which a close above its level
\* was met: only the failed crossing kept the entry from firing.
C5_Witness ==
    /\ pc = "done"
    /\ StrictlyDecreasingCloses(fetched)
    /\ \E k \in 2..Len(data) : Gt(Num(data[k].Close), data[k].Fib50)

(***************************************************************************)
(* C6.  Every recorded trade exits on the first row after its entry row    *)
(* whose High reaches its SwingHigh: the exit row lies after the entry     *)
(* row, passes the exit test, no row strictly between the two passes it,   *)
(* the exit price is the exit row's SwingHigh, the exit date is after the  *)
(* entry date, and no two records share an entry date.                     *)
(***************************************************************************)
C6_ExitIsFirstHit ==
    /\ \A n \in Trades :
          LET t == transactions[n]
              ki == RowOf(t.EntryDate)
              kj == RowOf(t.ExitDate)
          IN  /\ Logged(ki)
              /\ ki + 1 <= kj
              /\ kj <= Len(data)
              /\ data[kj].High >= data[kj].SwingHigh
              /\ \A m \in (ki + 1)..(kj - 1) :
                    data[m].High < data[m].SwingHigh
              /\ t.ExitPrice = data[kj].SwingHigh
              /\ t.EntryPrice = data[ki].Close
              /\ t.EntryDate < t.ExitDate
    /\ \A n, m \in Trades :
          transactions[n].EntryDate = transactions[m].EntryDate => n = m

\* A trade whose exit scan passed over a row that failed the exit test.
C6_Witness ==
    \E n \in Trades :
        RowOf(transactions[n].ExitDate) > RowOf(transactions[n].EntryDate) + 1

(***************************************************************************)
(* C7.  An entry with no later row passing the exit test is abandoned:     *)
(* the step that logs it leaves the balance, both totals and the           *)
(* transaction log unchanged, it never gets a record, and every record's   *)
(* exit row passes the exit test (nothing is liquidated at the end).       *)
(***************************************************************************)
C7_AbandonedEntryLeavesBooks ==
    /\ [](Running =>
            /\ \A k \in Visited : (Logged(k) /\ NoExitAfter(k)) => ~HasTrade(k)
            /\ \A n \in Trades :
                  LET kj == RowOf(transactions[n].ExitDate)
                  IN  data[kj].High >= data[kj].SwingHigh)
    /\ [][ ( /\ pc = "backtest"
             /\ Len(entry_log') = Len(entry_log) + 1
             /\ NoExitAfter(i) )
           => UNCHANGED books ]_vars

\* A finished run that logged an entry on a row with no exit after it.
C7_Witness ==
    /\ pc = "done"
    /\ \E k \in Visited : Logged(k) /\ NoExitAfter(k)

(***************************************************************************)
(* C8.  The exit scan never moves the outer loop: every iteration          *)
(* advances the row by exactly one, so at the end every row has been       *)
(* through the entry test and the entry log holds exactly the rows that    *)
(* pass it, rows between an earlier entry and its exit included; the       *)
(* transaction log is in strictly increasing entry date.                   *)
(***************************************************************************)
C8_OuterScanIndependent ==
    /\ [][(pc = "backtest" /\ pc' = "backtest") => i' = i + 1]_vars
    /\ [](pc = "done" =>
            \A k \in 1..Len(data) :
                Logged(k) <=>
                    /\ k > 1
                    /\ Gt(Num(data[k].Close), data[k].Fib50)
                    /\ Le(Num(data[k - 1].Close), data[k].Fib50))
    /\ [](\A n \in Trades :
            n + 1 \in Trades =>
                transactions[n].EntryDate < transactions[n + 1].EntryDate)

\* A finished run with a trade entered between an earlier entry and its exit.
C8_Witness ==
    /\ pc = "done"
    /\ \E n, m \in Trades :
          /\ transactions[n].EntryDate < transactions[m].EntryDate
          /\ transactions[m].EntryDate <= transactions[n].ExitDate

(***************************************************************************)
(* C9.  The balance stays strictly positive: once the loop has started     *)
(* the balance is positive, as is every recorded balance, and each         *)
(* trade's P/L is greater than minus the balance it was sized from.        *)
(***************************************************************************)
C9_BalancePositive ==
    Running =>
        /\ Gt(account_balance, Zero)
        /\ \A n \in Trades :
              /\ Gt(transactions[n].AccountBalance, Zero)
              /\ Gt(Add(transactions[n].PnL, BalanceBefore(n)), Zero)

\* The whole balance was put on a trade that lost.
C9_Witness ==
    /\ risk_percent = 100
    /\ \E n \in Trades : Lt(transactions[n].PnL, Zero)

(***************************************************************************)
(* C10.  On every row that survives the drop SwingHigh >= High, so the     *)
(* exit test holds with equality only: every record's exit price is the    *)
(* High of its exit bar, and that High is the maximum of the Highs of the  *)
(* bar's own window in the fetched frame.                                  *)
(***************************************************************************)
C10_ExitAtWindowMaximum ==
    Running =>
        /\ \A k \in 1..Len(data) : data[k].SwingHigh >= data[k].High
        /\ \A n \in Trades :
              LET t == transactions[n]
                  kj == RowOf(t.ExitDate)
                  win == (t.ExitDate + (swing_length - 1) \div 2
                             - swing_length + 1)
                         ..(t.ExitDate + (swing_length - 1) \div 2)
              IN  /\ t.ExitPrice = data[kj].High
                  /\ win \subseteq 1..Len(fetched)
                  /\ t.ExitDate \in win
                  /\ \A m \in win : fetched[m].High <= t.ExitPrice

\* A recorded trade whose exit bar is not the highest bar of the frame.
C10_Witness ==
    \E n \in Trades : \E m \in 1..Len(fetched) :
        fetched[m].High > transactions[n].ExitPrice

=============================================================================
